---------------------------- MODULE Spec2Model ----------------------------
(***************************************************************************)
(* RadiaCode Track Viewer (RadiaCodeMapViewer2.py): the MapWindow of the   *)
(* viewer as a state machine.  One action per Qt slot; a slot that sets a  *)
(* widget whose change signal is connected to update_display runs that     *)
(* nested update_display inside the same action.                           *)
(*                                                                         *)
(* Numbers.  Metric values, latitudes and longitudes are integers.  Times  *)
(* are integers counting ticks, TicksPerSec ticks to the second, so that a *)
(* timestamp can carry a sub-second part.  Absolute colour-range values    *)
(* are kept in hundredths (the slider position is a percentage), which     *)
(* makes rel/100 * range + min exact: Hundredths = rel * range + 100*min.  *)
(* Optional values are tagged records (None, NaN, Num(v)).                 *)
(*                                                                         *)
(* Not modelled: the text of the two slider labels, the DEBUG prints, the  *)
(* window geometry.  Track files hold numeric cells that either parse or   *)
(* are absent; a cell that does not parse occurs in the Time column only.  *)
(* The local time zone is UTC.                                             *)
(***************************************************************************)
EXTENDS Integers, Sequences, FiniteSets

\* ------------------------------------------------------------------ bounds
\* Number of files that may be loaded in one run of the application; the
\* user picks a file at most once.
MaxLoads == 2
\* Resolution of the clock: ticks per second.
TicksPerSec == 2

\* ------------------------------------------------------------ tagged values
None == [kind |-> "None"]
NaN == [kind |-> "NaN"]
Unset == [kind |-> "unset"]
Absent == [kind |-> "absent"]
Unparseable == [kind |-> "str"]
Num(v) == [kind |-> "num", v |-> v]
DataFrame(rows) == [kind |-> "DataFrame", rows |-> rows]

IsNum(x) == x.kind = "num"

SetMin(S) == CHOOSE x \in S : \A y \in S : x <= y
SetMax(S) == CHOOSE x \in S : \A y \in S : x >= y
Column(rows, c) == {rows[i][c] : i \in 1..Len(rows)}

RECURSIVE SeqSum(_, _)
SeqSum(rows, c) == IF rows = <<>> THEN 0 ELSE rows[1][c] + SeqSum(Tail(rows), c)

\* Series.min() / Series.max(): NaN (NaT) on an empty series.
SeriesMin(rows, c) == IF rows = <<>> THEN NaN ELSE Num(SetMin(Column(rows, c)))
SeriesMax(rows, c) == IF rows = <<>> THEN NaN ELSE Num(SetMax(Column(rows, c)))
\* Series.mean() as an exact fraction.
SeriesMean(rows, c) == [num |-> SeqSum(rows, c), den |-> Len(rows)]
\* max - min of two floats; NaN propagates.
Minus(a, b) == IF IsNum(a) /\ IsNum(b) THEN Num(a.v - b.v) ELSE NaN

\* ------------------------------------------------------------ program data
Metrics == {"DoseRate", "CountRate"}
metricUnits == [m \in Metrics |-> IF m = "DoseRate" THEN "uSv/h" ELSE "cps"]
Colormaps == {"viridis", "plasma"}
RequiredColumns == {"Time", "Latitude", "Longitude", "DoseRate", "CountRate"}

\* --------------------------------------------------------------- track files
\* A track file: whether it can be read, the columns its header names, and
\* its rows, one cell per required column (Num, NaN when absent, Unparseable).
Row(t, la, lo, d, c) ==
  [Time |-> t, Latitude |-> la, Longitude |-> lo, DoseRate |-> d, CountRate |-> c]
GoodRow(t, la, d, c) == Row(Num(t), Num(la), Num(la), Num(d), Num(c))

\* Recorded later; its last sample carries a sub-second timestamp.
TrackA ==
  [name |-> "A", readable |-> TRUE, columns |-> RequiredColumns,
   rows |-> << GoodRow(2 * TicksPerSec, 1, 2, 30),
               GoodRow(3 * TicksPerSec + 1, 2, 5, 10) >>]
\* Recorded earlier; its middle row has no Latitude.
TrackB ==
  [name |-> "B", readable |-> TRUE, columns |-> RequiredColumns,
   rows |-> << GoodRow(0, 3, 1, 20),
               Row(Num(1), NaN, Num(9), Num(7), Num(70)),
               GoodRow(1 * TicksPerSec, 4, 3, 40) >>]
\* Every row lacks a field.
TrackEmpty ==
  [name |-> "Empty", readable |-> TRUE, columns |-> RequiredColumns,
   rows |-> << Row(Num(1), NaN, Num(9), Num(7), Num(70)),
               Row(Num(2), Num(9), Num(9), NaN, Num(70)) >>]
\* The header lacks the CountRate column.
TrackNoColumn ==
  [name |-> "NoColumn", readable |-> TRUE,
   columns |-> RequiredColumns \ {"CountRate"},
   rows |-> << GoodRow(0, 3, 1, 20) >>]
\* The file cannot be opened.
TrackUnreadable ==
  [name |-> "Unreadable", readable |-> FALSE, columns |-> RequiredColumns,
   rows |-> << GoodRow(0, 3, 1, 20) >>]
\* One row's Time is not a datetime string; the other row is well-formed.
TrackBadTime ==
  [name |-> "BadTime", readable |-> TRUE, columns |-> RequiredColumns,
   rows |-> << GoodRow(0, 3, 1, 20),
               Row(Unparseable, Num(4), Num(4), Num(3), Num(40)) >>]

Files == {TrackA, TrackB, TrackEmpty, TrackNoColumn, TrackUnreadable, TrackBadTime}

\* The dialog's answer: a file, or "" when the dialog is cancelled.
Cancelled == [name |-> "", readable |-> FALSE, columns |-> {}, rows |-> <<>>]

\* Values a user gives the widgets.
MinSliderValues == {0, 50}
MaxSliderValues == {50, 100}
EditTimes == {1 * TicksPerSec}
\* QDateTime.currentDateTime() at the moment of a clear (local time, with ms).
Nows == {5 * TicksPerSec + 1}


\* ------------------------------------------------------------------- state
VARIABLES
  self,        \* the MapWindow: its attributes and the values of its widgets
  disk,        \* map.html in the working directory (Absent once renamed away)
  emitted,     \* what the last slot handed out: the exported file, the time plot
  console,     \* the message the last slot printed last ("" when none)
  exception,   \* the exception that left a slot uncaught ("none" when none)
  loadedFiles, \* the files whose parse succeeded since the last clear, in load order
  picked       \* the files loaded so far in this run of the application

vars == <<self, disk, emitted, console, exception, loadedFiles, picked>>

ErrMinMax == "Error: Minimum color value must be less than the maximum."
ErrNoData == "No data available for the selected time range."
ErrOpen == "Error parsing file: [Errno 2] No such file or directory"
ErrColumn == "Error parsing file: not in index"
ErrDatetime == "Error parsing file: Unknown datetime string format"

\* ------------------------------------------------------------------- parser
HasAllFields(row) == \A c \in RequiredColumns : row[c] # NaN

Parsed(row) == [c \in RequiredColumns |-> row[c].v]

ParsedRows(rows) == [i \in 1..Len(rows) |-> Parsed(rows[i])]

\* The exception parse_rctrk_file catches and prints, "" when none is
\* raised: read_csv cannot open the file, the column selection misses a
\* column, or to_datetime meets a string that is no datetime among the rows
\* dropna has kept.
ParseError(f) ==
  IF ~f.readable THEN ErrOpen
  ELSE IF ~(RequiredColumns \subseteq f.columns) THEN ErrColumn
  ELSE IF \E i \in 1..Len(f.rows) : HasAllFields(f.rows[i]) /\ f.rows[i].Time = Unparseable
       THEN ErrDatetime
       ELSE ""

\* Mutant of parse_rctrk_file: a missing column is not noticed.
parse_rctrk_file_any_columns(f) ==
  IF ParseError(f) \in {ErrOpen, ErrDatetime} THEN None
  ELSE DataFrame(ParsedRows(SelectSeq(f.rows, HasAllFields)))

\* parse_rctrk_file: None when an exception was caught; otherwise the rows
\* that dropna keeps, in file order.
parse_rctrk_file(f) ==
  IF ParseError(f) # "" THEN None
  ELSE DataFrame(ParsedRows(SelectSeq(f.rows, HasAllFields)))

\* ------------------------------------------------------------- map renderer
\* Mutant of ColorPosition: the colour scale is extrapolated outside the range.
ColorPositionExtrapolated(value, vmin, vmax) == value - vmin

\* LinearColormap.__call__: the position of the value inside [vmin, vmax],
\* clamped at both ends; all three arguments in hundredths.
ColorPosition(value, vmin, vmax) ==
  IF value <= vmin THEN 0 ELSE IF value >= vmax THEN vmax - vmin ELSE value - vmin

Marker(row, metric, vmin, vmax, colormap) ==
  [location |-> <<row.Latitude, row.Longitude>>,
   value |-> row[metric],
   time |-> row.Time,
   color |-> [colormap |-> colormap,
              pos |-> ColorPosition(100 * row[metric], vmin, vmax),
              span |-> vmax - vmin]]

Whole(n) == [num |-> n, den |-> 1]

\* folium.Map(...) with no data on it.
BaseMap(lat, lon, zoom) ==
  [location |-> <<lat, lon>>, zoom_start |-> zoom, markers |-> <<>>, legend |-> None]

\* The tail of load_map: save, display, enable the buttons.
SaveAndDisplay(w, map_object) ==
  [w EXCEPT !.self.map_file = "map.html",
            !.disk.map_html = map_object,
            !.self.map_view = map_object,
            !.self.time_plot_button = TRUE,
            !.self.export_button = TRUE]

\* load_map(lat, lon, zoom, data, metric, color_range); color_range in
\* hundredths, or None.
load_map(w, lat, lon, zoom, data, metric, color_range) ==
  IF data = None THEN SaveAndDisplay(w, BaseMap(lat, lon, zoom))
  ELSE
    LET metric_min == IF color_range = None
                      THEN 100 * SetMin(Column(data.rows, metric))
                      ELSE color_range.min
        metric_max == IF color_range = None
                      THEN 100 * SetMax(Column(data.rows, metric))
                      ELSE color_range.max
    IN IF metric_min >= metric_max
       THEN [w EXCEPT !.console = ErrMinMax]
       ELSE
         LET markers == [i \in 1..Len(data.rows) |->
                           Marker(data.rows[i], metric, metric_min, metric_max,
                                  w.self.current_colormap_name)]
             legend == [vmin |-> metric_min, vmax |-> metric_max,
                        colormap |-> w.self.current_colormap_name,
                        caption |-> <<w.self.metricSelected,
                                      metricUnits[w.self.metricSelected]>>]
         IN SaveAndDisplay(w, [location |-> <<lat, lon>>, zoom_start |-> zoom,
                               markers |-> markers, legend |-> legend])

\* ----------------------------------------------------------- update_display
\* (relative / 100) * setAbsoluteRange + setAbsoluteMin, in hundredths.
SliderAbsolute(relative, absRange, absMin) == relative * absRange.v + 100 * absMin.v

InTimeWindow(rows, start, stop) ==
  SelectSeq(rows, LAMBDA r : r.Time >= start /\ r.Time <= stop)

update_display(w) ==
  IF w.self.loaded_data = None THEN w
  ELSE
    LET s == w.self
        w1 == [w EXCEPT !.self.metricSelected = s.display_field_dropdown,
                        !.self.current_colormap_name = s.colormap_dropdown]
        min_value_relative == s.color_min_slider
        max_value_relative == s.color_max_slider
    IN IF min_value_relative >= max_value_relative
       THEN [w1 EXCEPT !.console = ErrMinMax]
       ELSE
         LET slider_min_absolute ==
               SliderAbsolute(min_value_relative, s.setAbsoluteRange, s.setAbsoluteMin)
             slider_max_absolute ==
               SliderAbsolute(max_value_relative, s.setAbsoluteRange, s.setAbsoluteMin)
             filtered == InTimeWindow(s.loaded_data.rows,
                                      s.start_time_edit, s.stop_time_edit)
             w2 == [w1 EXCEPT !.self.start_time = Num(s.start_time_edit),
                              !.self.stop_time = Num(s.stop_time_edit),
                              !.self.filtered_data = DataFrame(filtered)]
         IN IF filtered = <<>>
            THEN [w2 EXCEPT !.console = ErrNoData]
            ELSE load_map(w2,
                          SeriesMean(filtered, "Latitude"),
                          SeriesMean(filtered, "Longitude"),
                          12,
                          DataFrame(filtered),
                          w2.self.metricSelected,
                          [min |-> slider_min_absolute, max |-> slider_max_absolute])

\* A world: what a slot reads and writes.
Nothing == [exported |-> Absent, time_plot |-> Absent]
World ==
  [self |-> self, disk |-> disk, emitted |-> Nothing, console |-> "",
   exception |-> "none"]

\* A widget whose change signal is connected to update_display: the slot
\* runs when, and only when, the value changes.
SetWidget(w, widget, value) ==
  IF w.self[widget] = value THEN w
  ELSE update_display([w EXCEPT !.self[widget] = value])


\* -------------------------------------------------------------- select_file
\* int(t.timestamp()): whole seconds since the epoch; pandas reads a naive
\* timestamp as UTC.
TimestampSecs(t) == t \div TicksPerSec

\* QDateTime.fromSecsSinceEpoch(secs), read back by dateTime().toPyDateTime():
\* the naive local time of that instant, a whole second.  The local zone is
\* UTC here; in another zone the result is displaced by the zone's offset.
FromSecsSinceEpoch(secs) == secs * TicksPerSec

\* Mutant of Concat: the new file replaces the data loaded before.
ConcatReplacing(old, new) == new

\* pd.concat([loaded_data, data], ignore_index=True)
Concat(old, new) == DataFrame(old.rows \o new.rows)

\* Lines 248-264: the extrema of the accumulated data, and the absolute
\* range of the metric that is selected now.
Extrema(s, loaded) ==
  LET mnD == SeriesMin(loaded.rows, "DoseRate")
      mxD == SeriesMax(loaded.rows, "DoseRate")
      mnC == SeriesMin(loaded.rows, "CountRate")
      mxC == SeriesMax(loaded.rows, "CountRate")
      dose == s.metricSelected = "DoseRate"
  IN [s EXCEPT !.loaded_data = loaded,
               !.min_time = SeriesMin(loaded.rows, "Time"),
               !.max_time = SeriesMax(loaded.rows, "Time"),
               !.min_doseRate = mnD,
               !.max_doseRate = mxD,
               !.min_countRate = mnC,
               !.max_countRate = mxC,
               !.range_doseRate = Minus(mxD, mnD),
               !.range_countRate = Minus(mxC, mnC),
               !.setAbsoluteMin = IF dose THEN mnD ELSE mnC,
               !.setAbsoluteMax = IF dose THEN mxD ELSE mxC,
               !.setAbsoluteRange = IF dose THEN Minus(mxD, mnD) ELSE Minus(mxC, mnC)]

select_file(w, file_path) ==
  IF file_path = Cancelled THEN w
  ELSE
    LET data == parse_rctrk_file(file_path)
    IN IF data = None THEN [w EXCEPT !.console = ParseError(file_path)]
       ELSE
         LET loaded == IF w.self.loaded_data = None
                       THEN data
                       ELSE Concat(w.self.loaded_data, data)
             w1 == [w EXCEPT !.self = Extrema(w.self, loaded)]
         IN IF w1.self.min_time = NaN
            \* NaT.timestamp() raises ValueError
            THEN [w1 EXCEPT !.exception = "ValueError"]
            ELSE
              LET w2 == SetWidget(w1, "start_time_edit",
                          FromSecsSinceEpoch(TimestampSecs(w1.self.min_time.v)))
                  w3 == SetWidget(w2, "stop_time_edit",
                          FromSecsSinceEpoch(TimestampSecs(w1.self.max_time.v)))
              IN update_display(w3)

\* --------------------------------------------------------------- clear_data
clear_data(w, now) ==
  LET w1 == [w EXCEPT !.self.loaded_data = None]
      w2 == SetWidget(w1, "start_time_edit", now)
      w3 == SetWidget(w2, "stop_time_edit", now)
  IN load_map(w3, Whole(0), Whole(0), 2, None, "DoseRate", None)

\* -------------------------------------------------------------- export_html
\* os.rename(self.map_file, file_path); file_path is "" when the dialog is
\* cancelled.
export_html(w, file_path) ==
  IF w.self.map_file = "" THEN w
  ELSE IF file_path = "" THEN w
  ELSE IF w.disk.map_html = Absent
       THEN [w EXCEPT !.exception = "FileNotFoundError"]
       ELSE [w EXCEPT !.emitted.exported = w.disk.map_html,
                      !.disk.map_html = Absent]

\* ----------------------------------------------------------- show_time_plot
\* px.line(data, x="Time", y=metric): one point per row, joined in row order.
plot_data(w, data, metric) ==
  LET fig == [title |-> metric,
              points |-> [i \in 1..Len(data.rows) |->
                            <<data.rows[i].Time, data.rows[i][metric]>>]]
  IN [w EXCEPT !.emitted.time_plot = fig]

show_time_plot(w) ==
  IF w.self.loaded_data = None THEN w
  ELSE
    LET filtered_data == InTimeWindow(w.self.loaded_data.rows,
                                      w.self.start_time_edit, w.self.stop_time_edit)
    IN IF filtered_data = <<>>
       THEN [w EXCEPT !.console = ErrNoData]
       ELSE plot_data(w, DataFrame(filtered_data), w.self.metricSelected)

\* --------------------------------------------------------------------- Init
\* MapWindow.__init__ up to, and without, its closing load_map().
Constructed ==
  [current_colormap_name |-> "viridis",
   loaded_data |-> None,
   filtered_data |-> None,
   map_file |-> "",
   start_time |-> None,
   stop_time |-> None,
   min_time |-> None,
   max_time |-> None,
   min_doseRate |-> None,
   max_doseRate |-> None,
   min_countRate |-> None,
   max_countRate |-> None,
   range_doseRate |-> None,
   range_countRate |-> None,
   metricSelected |-> "DoseRate",
   setAbsoluteMin |-> Unset,
   setAbsoluteMax |-> Unset,
   setAbsoluteRange |-> Unset,
   map_view |-> Absent,
   display_field_dropdown |-> "DoseRate",
   colormap_dropdown |-> "viridis",
   export_button |-> FALSE,
   time_plot_button |-> FALSE,
   start_time_edit |-> 0,
   stop_time_edit |-> 0,
   color_min_slider |-> 0,
   color_max_slider |-> 100]

EmptyDisk == [map_html |-> Absent]

Init ==
  LET w == load_map([self |-> Constructed, disk |-> EmptyDisk, emitted |-> Nothing,
                     console |-> "", exception |-> "none"],
                    Whole(0), Whole(0), 2, None, "DoseRate", None)
  IN /\ self = w.self
     /\ disk = w.disk
     /\ emitted = w.emitted
     /\ console = w.console
     /\ exception = w.exception
     /\ loadedFiles = <<>>
     /\ picked = {}

\* ------------------------------------------------------------------ actions
\* A slot runs to its end, or to the exception it does not catch; an
\* uncaught exception in a slot ends the application.
Ran(w) ==
  /\ self' = w.self
  /\ disk' = w.disk
  /\ emitted' = w.emitted
  /\ console' = w.console
  /\ exception' = w.exception

SelectFileWith(f) ==
  /\ exception = "none"
  /\ Cardinality(picked) < MaxLoads
  /\ f.name \notin picked
  /\ Ran(select_file(World, f))
  /\ IF f # Cancelled /\ parse_rctrk_file(f) # None
     THEN loadedFiles' = Append(loadedFiles, f.name) /\ picked' = picked \cup {f.name}
     ELSE UNCHANGED <<loadedFiles, picked>>

SelectFile == \E f \in Files \cup {Cancelled} : SelectFileWith(f)

ClearData ==
  /\ exception = "none"
  /\ \E now \in Nows : Ran(clear_data(World, now))
  /\ loadedFiles' = <<>>
  /\ UNCHANGED picked

ExportHtml ==
  /\ exception = "none"
  /\ self.export_button
  /\ \E file_path \in {"", "export.html"} : Ran(export_html(World, file_path))
  /\ UNCHANGED <<loadedFiles, picked>>

ShowTimePlot ==
  /\ exception = "none"
  /\ self.time_plot_button
  /\ Ran(show_time_plot(World))
  /\ UNCHANGED <<loadedFiles, picked>>

\* The user gives a widget another value; its change signal runs update_display.
Changed(widget, v) ==
  /\ v # self[widget]
  /\ Ran(SetWidget(World, widget, v))
  /\ UNCHANGED <<loadedFiles, picked>>

ChangeMetric ==
  /\ exception = "none"
  /\ \E v \in Metrics : Changed("display_field_dropdown", v)

ChangeColormap ==
  /\ exception = "none"
  /\ \E v \in Colormaps : Changed("colormap_dropdown", v)

MoveMinSlider ==
  /\ exception = "none"
  /\ \E v \in MinSliderValues : Changed("color_min_slider", v)

MoveMaxSlider ==
  /\ exception = "none"
  /\ \E v \in MaxSliderValues : Changed("color_max_slider", v)

EditStartTime ==
  /\ exception = "none"
  /\ \E v \in EditTimes : Changed("start_time_edit", v)

EditStopTime ==
  /\ exception = "none"
  /\ \E v \in EditTimes : Changed("stop_time_edit", v)

Next ==
  \/ SelectFile
  \/ ClearData
  \/ ExportHtml
  \/ ShowTimePlot
  \/ ChangeMetric
  \/ ChangeColormap
  \/ MoveMinSlider
  \/ MoveMaxSlider
  \/ EditStartTime
  \/ EditStopTime

Spec == Init /\ [][Next]_vars

\* ------------------------------------------------------------------ claims
\* A step in which the user changed a metric, palette, slider or time widget.
FilterChange ==
  \/ ChangeMetric
  \/ ChangeColormap
  \/ MoveMinSlider
  \/ MoveMaxSlider
  \/ EditStartTime
  \/ EditStopTime

FileNamed(n) == CHOOSE f \in Files : f.name = n

\* The parsed samples of the named files, one file after the other.
RECURSIVE SamplesOf(_)
SamplesOf(names) ==
  IF names = <<>> THEN <<>>
  ELSE parse_rctrk_file(FileNamed(Head(names))).rows \o SamplesOf(Tail(names))

\* The absolute value window of slider positions lo, hi over the extrema
\* that the rows have for the metric, in hundredths.
WindowOf(rows, metric, lo, hi) ==
  LET mn == SetMin(Column(rows, metric))
      mx == SetMax(Column(rows, metric))
  IN [vmin |-> lo * (mx - mn) + 100 * mn, vmax |-> hi * (mx - mn) + 100 * mn]

\* A map with data on it was rendered in this step.
Rendered == self'.map_view # self.map_view /\ self'.map_view.legend # None

\* C1: every map render uses the value window that the slider positions
\* give over the dataset extrema of the metric selected at that render.
C1_RenderUsesSelectedMetricWindow ==
  [][Rendered =>
       LET win == WindowOf(self'.loaded_data.rows, self'.metricSelected,
                           self'.color_min_slider, self'.color_max_slider)
       IN /\ self'.map_view.legend.vmin = win.vmin
          /\ self'.map_view.legend.vmax = win.vmax]_vars

\* C2: after the loads since the last clear the dataset is the concatenation
\* of the parsed samples of the loaded files, in load order, and the stored
\* extrema are the minimum and maximum over that whole sequence.
C2_DatasetIsConcatenation ==
  loadedFiles # <<>> =>
    LET all == SamplesOf(loadedFiles)
    IN /\ self.loaded_data = DataFrame(all)
       /\ self.min_time = SeriesMin(all, "Time")
       /\ self.max_time = SeriesMax(all, "Time")
       /\ self.min_doseRate = SeriesMin(all, "DoseRate")
       /\ self.max_doseRate = SeriesMax(all, "DoseRate")
       /\ self.min_countRate = SeriesMin(all, "CountRate")
       /\ self.max_countRate = SeriesMax(all, "CountRate")

\* TrackA then TrackB are loaded: four samples, and extrema that neither
\* file has alone.
C2_Witness ==
  /\ loadedFiles = <<"A", "B">>
  /\ Len(self.loaded_data.rows) = 4
  /\ self.min_doseRate = Num(1)
  /\ self.max_doseRate = Num(5)
  /\ self.min_time = Num(0)
  /\ self.max_time = Num(3 * TicksPerSec + 1)

\* The time window or the relative value window of the widgets is invalid.
InvalidRange(s) ==
  \/ s.start_time_edit > s.stop_time_edit
  \/ s.color_min_slider >= s.color_max_slider

\* C3: an update_display that runs with an invalid range leaves the active
\* metric, the active colormap, the stored start and stop time, the filtered
\* view and the last rendered map as they were.
C3_InvalidRangeHasNoEffect ==
  [][(FilterChange /\ self.loaded_data # None /\ InvalidRange(self')) =>
       /\ self'.metricSelected = self.metricSelected
       /\ self'.current_colormap_name = self.current_colormap_name
       /\ self'.start_time = self.start_time
       /\ self'.stop_time = self.stop_time
       /\ self'.filtered_data = self.filtered_data
       /\ self'.map_view = self.map_view
       /\ disk' = disk]_vars

\* C4: clear_data empties the dataset and puts the value sliders back at
\* (0, 100).
C4_ClearResetsSelection ==
  [][ClearData =>
       /\ self'.loaded_data = None
       /\ self'.color_min_slider = 0
       /\ self'.color_max_slider = 100]_vars

\* C5: a load whose parse yields no sample completes without raising.
C5_EmptyParseLoadsCleanly ==
  [][\A f \in Files :
       (parse_rctrk_file(f) = DataFrame(<<>>) /\ SelectFileWith(f))
         => exception' = "none"]_vars

\* The file cannot be opened or lacks a required column.
ParseFails(f) == ~f.readable \/ ~(RequiredColumns \subseteq f.columns)

\* C6: a load whose parse fails changes neither the window's attributes and
\* widgets (dataset, extrema, absolute range, time window, sliders, displayed
\* map) nor the map file.
C6_FailedLoadChangesNothing ==
  [][\A f \in Files :
       (ParseFails(f) /\ SelectFileWith(f))
         => /\ self' = self
            /\ disk' = disk
            /\ loadedFiles' = loadedFiles]_vars

\* A failed load has just run on a window that holds data and a rendered map.
C6_Witness ==
  /\ console \in {ErrOpen, ErrColumn}
  /\ self.loaded_data # None
  /\ self.map_view.markers # <<>>

\* C7: a successful load of a non-empty file sets the time window to the
\* [min time, max time] of the dataset, the filtered view then holds every
\* sample, and the map shows one marker per sample.
C7_LoadShowsWholeDataset ==
  [][\A f \in Files :
       (/\ parse_rctrk_file(f) # None
        /\ parse_rctrk_file(f) # DataFrame(<<>>)
        /\ SelectFileWith(f))
         => /\ Num(self'.start_time_edit) = self'.min_time
            /\ Num(self'.stop_time_edit) = self'.max_time
            /\ self'.filtered_data = self'.loaded_data
            /\ Len(self'.map_view.markers) = Len(self'.loaded_data.rows)]_vars

\* The rows of a file in which all five required fields are present and parse.
WellFormed(row) == \A c \in RequiredColumns : IsNum(row[c])
WellFormedRows(f) == ParsedRows(SelectSeq(f.rows, WellFormed))
RowsOf(data) == IF data = None THEN <<>> ELSE data.rows

\* C8: loading a readable file that has the required columns adds exactly
\* its well-formed rows, in file order; a malformed row is dropped alone.
C8_ParseKeepsWellFormedRows ==
  [][\A f \in Files :
       (~ParseFails(f) /\ SelectFileWith(f))
         => self'.loaded_data =
              DataFrame(RowsOf(self.loaded_data) \o WellFormedRows(f))]_vars

\* C9: the time plot presents its points ordered by time ascending.
C9_TimePlotIsChronological ==
  emitted.time_plot # Absent =>
    \A i, j \in 1..Len(emitted.time_plot.points) :
      i < j => emitted.time_plot.points[i][1] <= emitted.time_plot.points[j][1]

\* C10: after a filter change that leaves no sample of the loaded dataset
\* inside the time window, the displayed map has no markers and no legend.
C10_EmptyViewShowsBareMap ==
  [][(/\ FilterChange
      /\ self.loaded_data # None
      /\ InTimeWindow(self'.loaded_data.rows,
                      self'.start_time_edit, self'.stop_time_edit) = <<>>)
       => /\ self'.map_view.markers = <<>>
          /\ self'.map_view.legend = None]_vars

\* C11: a map render with data places one marker per sample of the filtered
\* view, at the sample's place and with its value, whatever the value window
\* is; a sample below the window has the colour of the window's lower end, a
\* sample above it the colour of the upper end.
C11_OneClampedMarkerPerSample ==
  [][Rendered =>
       LET rows == self'.filtered_data.rows
           map == self'.map_view
       IN /\ Len(map.markers) = Len(rows)
          /\ \A i \in 1..Len(rows) :
               LET marker == map.markers[i]
                   value == 100 * rows[i][self'.metricSelected]
               IN /\ marker.location = <<rows[i].Latitude, rows[i].Longitude>>
                  /\ marker.value = rows[i][self'.metricSelected]
                  /\ marker.color.span = map.legend.vmax - map.legend.vmin
                  /\ value < map.legend.vmin => marker.color.pos = 0
                  /\ value > map.legend.vmax => marker.color.pos = marker.color.span
                  /\ marker.color.pos \in 0..marker.color.span]_vars

\* The displayed map holds a marker for each of several filtered samples,
\* one of them above the value window and one of them below it or at its
\* lower end.
C11_Witness ==
  /\ self.map_view.legend # None
  /\ self.filtered_data # None
  /\ Len(self.map_view.markers) = Len(self.filtered_data.rows)
  /\ Len(self.map_view.markers) >= 2
  /\ \E i \in 1..Len(self.map_view.markers) :
       /\ 100 * self.map_view.markers[i].value > self.map_view.legend.vmax
       /\ self.map_view.markers[i].color.pos = self.map_view.markers[i].color.span
  /\ \E i \in 1..Len(self.map_view.markers) :
       /\ 100 * self.map_view.markers[i].value <= self.map_view.legend.vmin
       /\ self.map_view.markers[i].color.pos = 0

\* C12: whenever a map has been rendered (map_file is set and the export
\* button is enabled), the map artifact exists at its path.
C12_MapArtifactExists ==
  (self.map_file # "" /\ self.export_button) => disk.map_html # Absent

=============================================================================
